---- MODULE Spec2Model ----
(***************************************************************************)
(* Community resource sharing app (src/main_app.py): the booking engine    *)
(* (validate_dates, is_resource_available, add_request and the two request *)
(* forms), the resource store and request ledger kept in two CSV files,    *)
(* the Home / Dashboard counters, and the Smart Search `search` loop.      *)
(*                                                                         *)
(* Every user interaction is one run of the script from top to bottom:     *)
(* the run loads both CSV files (lines 44-45), renders the selected page   *)
(* and executes the handler of the widget that was clicked.  The state     *)
(* that survives a run is the two files and st.session_state.              *)
(***************************************************************************)
EXTENDS Integers, Sequences, FiniteSets, TLC

VARIABLES
    resources_csv,   \* rows of resources.csv (the resource store)
    requests_csv,    \* rows of requests.csv (the request ledger)
    session_state,   \* st.session_state: selected_resource, request_active
    shown,           \* what the last run displayed (page, message, metrics)
    avail_call,      \* arguments and result of a direct is_resource_available call
    pc,              \* per session: position inside a submit run (race model)
    df,              \* per session: the DataFrames loaded by the current run
    form,            \* per session: the submitted form values
    branch,          \* per session: the branch the submit handler took
    search_in,       \* the index and the query's distances (search model)
    results          \* rows returned by search

vars == <<resources_csv, requests_csv, session_state, shown, avail_call,
          pc, df, form, branch, search_in, results>>

(***************************************************************************)
(* Bounds of the model.                                                    *)
(***************************************************************************)
MaxResources == 2
MaxRequests == 2
MaxDay == 2
MaxIndexed == 6
MaxDist == 3

(***************************************************************************)
(* Dates.  A datetime.date is its day number inside a short window of the  *)
(* calendar; strftime("%Y-%m-%d") and strptime(.., "%Y-%m-%d") convert      *)
(* between day numbers and the ISO strings kept in the CSV files.          *)
(***************************************************************************)
IsoDates == <<"2025-05-31", "2025-06-01", "2025-06-02", "2025-06-03",
              "2025-06-04", "2025-06-05", "2025-06-06", "2025-06-07">>

Days == 0..MaxDay

strftime(d) == IsoDates[d + 1]

strptime(s) == CHOOSE d \in 0..(Len(IsoDates) - 1) : IsoDates[d + 1] = s

\* datetime.today().date(): day 0 is yesterday.
today == 1

(***************************************************************************)
(* CSV round trip.  pandas reads an empty cell as NaN and writes NaN as an *)
(* empty cell.                                                             *)
(***************************************************************************)
NaN == "NaN"

read_cell(v) == IF v = "" THEN NaN ELSE v

write_cell(v) == IF v = NaN THEN "" ELSE v

read_csv_resources(file) ==
    [i \in DOMAIN file |->
        [file[i] EXCEPT !.title = read_cell(@),
                        !.location = read_cell(@),
                        !.availability_start = read_cell(@),
                        !.availability_end = read_cell(@)]]

to_csv_resources(frame) ==
    [i \in DOMAIN frame |->
        [frame[i] EXCEPT !.title = write_cell(@),
                         !.location = write_cell(@),
                         !.availability_start = write_cell(@),
                         !.availability_end = write_cell(@)]]

read_csv_requests(file) ==
    [i \in DOMAIN file |->
        [file[i] EXCEPT !.user_name = read_cell(@),
                        !.resource_title = read_cell(@),
                        !.start_date = read_cell(@),
                        !.end_date = read_cell(@),
                        !.status = read_cell(@)]]

to_csv_requests(frame) ==
    [i \in DOMAIN frame |->
        [frame[i] EXCEPT !.user_name = write_cell(@),
                         !.resource_title = write_cell(@),
                         !.start_date = write_cell(@),
                         !.end_date = write_cell(@),
                         !.status = write_cell(@)]]

(***************************************************************************)
(* Helpers.                                                                *)
(***************************************************************************)
MaxOf(S) == CHOOSE m \in S : \A x \in S : x <= m

\* str.strip() on the names and titles the forms are fed with.
strip(s) == IF s \in {"", " ", "  "} THEN "" ELSE s

(***************************************************************************)
(* Booking engine.                                                         *)
(***************************************************************************)
MSG_RANGE == "Start date must be before or equal to end date."
MSG_PAST == "Dates cannot be in the past."
MSG_NAME == "Please enter your name."
MSG_CONFIRMED == "Booking confirmed"
MSG_WAITLIST == "The resource is already booked for these dates. You have been added to the waitlist."
MSG_OFFER_FIELDS == "Title and location are required."
MSG_OFFERED == "has been added to the community pool!"

\* Mutant of lines 52-55: the two checks swapped.
validate_dates_past_first(start_date, end_date) ==
    IF start_date < today \/ end_date < today THEN [ok |-> FALSE, msg |-> MSG_PAST]
    ELSE IF start_date > end_date
         THEN [ok |-> FALSE, msg |-> MSG_RANGE]
         ELSE [ok |-> TRUE, msg |-> ""]

validate_dates(start_date, end_date) ==
    IF start_date > end_date THEN [ok |-> FALSE, msg |-> MSG_RANGE]
    ELSE IF start_date < today \/ end_date < today
         THEN [ok |-> FALSE, msg |-> MSG_PAST]
         ELSE [ok |-> TRUE, msg |-> ""]

\* Mutants of line 69: open endpoints; any Confirmed row blocks the resource.
ranges_overlap_strict(start_date, end_date, existing_start, existing_end) ==
    (start_date < existing_end) /\ (end_date > existing_start)

ranges_overlap_always(start_date, end_date, existing_start, existing_end) ==
    TRUE

\* Line 69: the closed-interval test of one Confirmed row against the candidate.
ranges_overlap(start_date, end_date, existing_start, existing_end) ==
    (start_date <= existing_end) /\ (end_date >= existing_start)

\* Mutant of lines 62-65: the status filter dropped.
existing_rows_any_status(resource_id, requests_df) ==
    LET keep(row) == (row.resource_id = resource_id)
    IN  SelectSeq(requests_df, keep)

\* Lines 62-65: the rows of the candidate's resource with status Confirmed.
existing_rows(resource_id, requests_df) ==
    LET keep(row) == (row.resource_id = resource_id) /\ (row.status = "Confirmed")
    IN  SelectSeq(requests_df, keep)

\* Lines 66-71: the loop over the filtered rows, returning at the first overlap.
RECURSIVE scan_existing(_, _, _, _)
scan_existing(existing, i, start_date, end_date) ==
    IF i > Len(existing) THEN TRUE
    ELSE LET existing_start == strptime(existing[i].start_date)
             existing_end == strptime(existing[i].end_date)
         IN  IF ranges_overlap(start_date, end_date, existing_start, existing_end)
             THEN FALSE
             ELSE scan_existing(existing, i + 1, start_date, end_date)

is_resource_available(resource_id, start_date, end_date, requests_df) ==
    scan_existing(existing_rows(resource_id, requests_df), 1, start_date, end_date)

\* Mutant of line 78: the increment dropped.
next_request_id_no_increment(requests_df) ==
    IF requests_df = <<>> THEN 1
    ELSE MaxOf({requests_df[i].request_id : i \in DOMAIN requests_df})

\* Line 78.
next_request_id(requests_df) ==
    IF requests_df = <<>> THEN 1
    ELSE MaxOf({requests_df[i].request_id : i \in DOMAIN requests_df}) + 1

\* Lines 78-88: the ledger frame after the append.
add_request_ledger(requests_df, user_name, resource_id, resource_title, start_date, end_date, status) ==
    Append(requests_df,
           [request_id |-> next_request_id(requests_df),
            user_name |-> user_name,
            resource_id |-> resource_id,
            resource_title |-> resource_title,
            start_date |-> strftime(start_date),
            end_date |-> strftime(end_date),
            status |-> status])

\* Mutant of lines 92-93: the row filter dropped.
clear_availability_all(resources_df, resource_id) ==
    [i \in DOMAIN resources_df |->
        [resources_df[i] EXCEPT !.availability_start = "", !.availability_end = ""]]

\* Lines 92-93: the store frame after clearing the booked resource's window.
clear_availability(resources_df, resource_id) ==
    [i \in DOMAIN resources_df |->
        IF resources_df[i].id = resource_id
        THEN [resources_df[i] EXCEPT !.availability_start = "",
                                     !.availability_end = ""]
        ELSE resources_df[i]]

\* Lines 89-94: what add_request leaves in resources.csv.
add_request_store(resources_file, resources_df, resource_id, status) ==
    IF status = "Confirmed"
    THEN to_csv_resources(clear_availability(resources_df, resource_id))
    ELSE resources_file

\* resources_df.loc[resources_df['id'] == resource_id].squeeze()['title']
resource_title_of(resources_df, resource_id) ==
    LET hit == {i \in DOMAIN resources_df : resources_df[i].id = resource_id}
    IN  resources_df[CHOOSE i \in hit : TRUE].title

\* Lines 166-176: the branch a submitted request form takes.
submit_branch(user_name, resource_id, start_date, end_date, requests_df) ==
    LET v == validate_dates(start_date, end_date)
    IN  IF ~v.ok THEN [kind |-> "error", text |-> v.msg, status |-> "none"]
        ELSE IF strip(user_name) = ""
        THEN [kind |-> "error", text |-> MSG_NAME, status |-> "none"]
        ELSE IF is_resource_available(resource_id, start_date, end_date, requests_df)
        THEN [kind |-> "success", text |-> MSG_CONFIRMED, status |-> "Confirmed"]
        ELSE [kind |-> "warning", text |-> MSG_WAITLIST, status |-> "Waitlist"]

(***************************************************************************)
(* Counters of the Home page (129-130) and the Dashboard (292-293).        *)
(***************************************************************************)
count_status(requests_df, status) ==
    Cardinality({i \in DOMAIN requests_df : requests_df[i].status = status})

confirmed_requests(requests_df) == count_status(requests_df, "confirmed")

waitlist_requests(requests_df) == count_status(requests_df, "requested")

\* Lines 140-142: rows offered on the Home page as featured resources.  A window
\* cleared by add_request is read back as NaN, which differs from "".
available_resources(resources_df) ==
    {i \in DOMAIN resources_df :
        resources_df[i].availability_start # "" /\ resources_df[i].availability_end # ""}

\* Lines 127-136 / 291-299: the two counters a Home or Dashboard run displays.
quick_stats(requests_df) ==
    <<confirmed_requests(requests_df), waitlist_requests(requests_df)>>

\* Pages without counters display none.
NoStats == <<>>

\* What a run displays: the page, the st.error / st.success / st.warning message
\* (kind "none" when there is none) and the counters.
Display(page, kind, text, stats) ==
    [page |-> page, kind |-> kind, text |-> text, stats |-> stats]

(***************************************************************************)
(* The pages, one action per run of the script (single session).           *)
(***************************************************************************)
UserNames == {"", " ", "amy"}
Titles == {"", "Drill"}
Locations == {"", "Shed"}
\* Dates fed to the offer form: its defaults, a reversed range, a past range.
OfferDates == {<<today, today>>, <<today + 1, today>>, <<0, today>>}

Sessions == {1, 2}

NoCall == [called |-> FALSE, resource_id |-> 0, start_date |-> 0, end_date |-> 0, result |-> FALSE]

other_vars == <<pc, df, form, branch, search_in, results>>

\* Home page, nothing clicked: lines 122-149.
ViewHome ==
    LET requests_df == read_csv_requests(requests_csv)
    IN  /\ shown' = Display("Home", "none", "", quick_stats(requests_df))
        /\ avail_call' = NoCall
        /\ UNCHANGED <<resources_csv, requests_csv, session_state>>
        /\ UNCHANGED other_vars

\* Home page, "Request Resource" clicked on a featured resource: lines 150-152.
SelectHome(i) ==
    LET requests_df == read_csv_requests(requests_csv)
        resources_df == read_csv_resources(resources_csv)
    IN  /\ i \in available_resources(resources_df)
        /\ session_state' = [selected_resource |-> resources_df[i].id, request_active |-> TRUE]
        /\ shown' = Display("Home", "none", "", quick_stats(requests_df))
        /\ avail_call' = NoCall
        /\ UNCHANGED <<resources_csv, requests_csv>>
        /\ UNCHANGED other_vars

\* Smart Search page, "Request Resource" clicked on a search result: lines 211-213.
\* With a suitable query any indexed row is among the results.
SelectSmart(i) ==
    LET resources_df == read_csv_resources(resources_csv)
    IN  /\ i \in DOMAIN resources_df
        /\ session_state' = [selected_resource |-> resources_df[i].id, request_active |-> TRUE]
        /\ shown' = Display("Smart Search", "none", "", NoStats)
        /\ avail_call' = NoCall
        /\ UNCHANGED <<resources_csv, requests_csv>>
        /\ UNCHANGED other_vars

\* What the handler's is_resource_available call (lines 171, 233) was given and returned.
availability_call(b, resource_id, start_date, end_date) ==
    IF b.status = "none" THEN NoCall
    ELSE [called |-> TRUE, resource_id |-> resource_id, start_date |-> start_date,
          end_date |-> end_date, result |-> (b.status = "Confirmed")]

\* The submit handler shared by request_form (165-178) and smart_request_form
\* (227-240), with the add_request call it makes.
SubmitBooking(page, user_name, start_date, end_date, stats) ==
    LET requests_df == read_csv_requests(requests_csv)
        resources_df == read_csv_resources(resources_csv)
        resource_id == session_state.selected_resource
        title == resource_title_of(resources_df, resource_id)
        b == submit_branch(user_name, resource_id, start_date, end_date, requests_df)
    IN  /\ session_state.request_active
        /\ Len(requests_csv) < MaxRequests
        /\ shown' = Display(page, b.kind, b.text, stats)
        /\ avail_call' = availability_call(b, resource_id, start_date, end_date)
        /\ IF b.status = "none"
           THEN UNCHANGED <<resources_csv, requests_csv, session_state>>
           ELSE /\ requests_csv' = to_csv_requests(
                        add_request_ledger(requests_df, user_name, resource_id, title,
                                           start_date, end_date, b.status))
                /\ resources_csv' = add_request_store(resources_csv, resources_df,
                                                      resource_id, b.status)
                /\ session_state' = [session_state EXCEPT !.request_active = FALSE]
        /\ UNCHANGED other_vars

SubmitHome(user_name, start_date, end_date) ==
    LET requests_df == read_csv_requests(requests_csv)
    IN  SubmitBooking("Home", user_name, start_date, end_date,
                      quick_stats(requests_df))

SubmitSmart(user_name, start_date, end_date) ==
    SubmitBooking("Smart Search", user_name, start_date, end_date, NoStats)

\* Line 265.
next_resource_id(resources_df) ==
    IF resources_df = <<>> THEN 1
    ELSE MaxOf({resources_df[i].id : i \in DOMAIN resources_df}) + 1

\* Lines 266-276: the row the offer form builds.
new_resource(resources_df, title, location, start_date, end_date) ==
    [id |-> next_resource_id(resources_df),
     title |-> title,
     location |-> location,
     availability_start |-> strftime(start_date),
     availability_end |-> strftime(end_date),
     rating |-> 3]

\* Offer Resource page, form submitted: lines 258-282.
Offer(title, location, start_date, end_date) ==
    LET resources_df == read_csv_resources(resources_csv)
        v == validate_dates(start_date, end_date)
    IN  /\ Len(resources_csv) < MaxResources
        /\ avail_call' = NoCall
        /\ UNCHANGED <<requests_csv, session_state>>
        /\ UNCHANGED other_vars
        /\ IF ~v.ok
           THEN /\ shown' = Display("Offer Resource", "error", v.msg, NoStats)
                /\ UNCHANGED resources_csv
           ELSE IF strip(title) = "" \/ strip(location) = ""
           THEN /\ shown' = Display("Offer Resource", "error", MSG_OFFER_FIELDS, NoStats)
                /\ UNCHANGED resources_csv
           ELSE /\ shown' = Display("Offer Resource", "success", MSG_OFFERED, NoStats)
                /\ resources_csv' = to_csv_resources(
                        Append(resources_df,
                               new_resource(resources_df, title, location, start_date, end_date)))

\* My Dashboard page: lines 291-301.
ViewDashboard ==
    LET requests_df == read_csv_requests(requests_csv)
    IN  /\ shown' = Display("My Dashboard", "none", "", quick_stats(requests_df))
        /\ avail_call' = NoCall
        /\ UNCHANGED <<resources_csv, requests_csv, session_state>>
        /\ UNCHANGED other_vars

\* Values of the variables a specification does not use.
IdleRace == [p \in Sessions |-> "idle"]
NoFrames == [p \in Sessions |-> [requests |-> <<>>, resources |-> <<>>]]
NoForm == [p \in Sessions |-> [user_name |-> "", start_date |-> 0, end_date |-> 0]]
NoBranch == [p \in Sessions |-> "none"]
NoSearch == [n |-> 0, dist |-> <<>>, pad |-> 0]

\* After the module-level initialisation (lines 36-45): both files hold a header only.
Init ==
    /\ resources_csv = <<>>
    /\ requests_csv = <<>>
    /\ session_state = [selected_resource |-> 0, request_active |-> FALSE]
    /\ shown = Display("Home", "none", "", <<0, 0>>)
    /\ avail_call = NoCall
    /\ pc = IdleRace
    /\ df = NoFrames
    /\ form = NoForm
    /\ branch = NoBranch
    /\ search_in = NoSearch
    /\ results = <<>>

SelectHomeAny == \E i \in 1..MaxResources : SelectHome(i)

SelectSmartAny == \E i \in 1..MaxResources : SelectSmart(i)

SubmitHomeAny == \E n \in UserNames, s \in Days, e \in Days : SubmitHome(n, s, e)

SubmitSmartAny == \E n \in UserNames, s \in Days, e \in Days : SubmitSmart(n, s, e)

OfferAny == \E t \in Titles, l \in Locations, d \in OfferDates : Offer(t, l, d[1], d[2])

Next ==
    \/ ViewHome
    \/ ViewDashboard
    \/ SelectHomeAny
    \/ SelectSmartAny
    \/ SubmitHomeAny
    \/ SubmitSmartAny
    \/ OfferAny

Spec == Init /\ [][Next]_vars

(***************************************************************************)
(* Properties of the sequential booking flow (specification Spec).         *)
(***************************************************************************)
LastRow(ledger) == ledger[Len(ledger)]

HasConfirmed(ledger, resource_id) ==
    \E i \in DOMAIN ledger :
        ledger[i].resource_id = resource_id /\ ledger[i].status = "Confirmed"

\* Closed date ranges of two ledger rows intersect.
RowsOverlap(r1, r2) ==
    ~(strptime(r1.end_date) < strptime(r2.start_date)
      \/ strptime(r2.end_date) < strptime(r1.start_date))

OverlapsConfirmed(ledger, row) ==
    \E i \in DOMAIN ledger :
        /\ ledger[i].resource_id = row.resource_id
        /\ ledger[i].status = "Confirmed"
        /\ RowsOverlap(ledger[i], row)

BookingPages == {"Home", "Smart Search"}

\* C2 as stated: once a Confirmed request for a resource is in the ledger, every
\* later accepted submission on that resource is recorded as Waitlist, whatever
\* its date range.
C2_WaitlistAfterFirstConfirmation ==
    [][(requests_csv' # requests_csv
        /\ HasConfirmed(requests_csv, LastRow(requests_csv').resource_id))
       => LastRow(requests_csv').status = "Waitlist"]_vars

ResourceCleared(store, resource_id) ==
    \A i \in DOMAIN store :
        store[i].id = resource_id
            => store[i].availability_start = "" /\ store[i].availability_end = ""

\* C2 amended: once a Confirmed request for a resource is in the ledger the
\* resource's availability fields are empty, and a later accepted submission on
\* it is recorded as Waitlist exactly when its closed date range intersects a
\* Confirmed request of that resource; otherwise it is recorded as Confirmed.
C2_WaitlistIffOverlap ==
    [][(requests_csv' # requests_csv
        /\ HasConfirmed(requests_csv, LastRow(requests_csv').resource_id))
       => /\ ResourceCleared(resources_csv, LastRow(requests_csv').resource_id)
          /\ LastRow(requests_csv').status \in {"Confirmed", "Waitlist"}
          /\ (LastRow(requests_csv').status = "Waitlist"
                <=> OverlapsConfirmed(requests_csv, LastRow(requests_csv')))]_vars

\* Two Confirmed rows of one resource whose availability fields are cleared.
C2_Witness ==
    /\ Len(requests_csv) >= 2
    /\ LastRow(requests_csv).status = "Confirmed"
    /\ HasConfirmed(SubSeq(requests_csv, 1, Len(requests_csv) - 1),
                    LastRow(requests_csv).resource_id)
    /\ ResourceCleared(resources_csv, LastRow(requests_csv).resource_id)
    /\ shown.kind = "success"

\* The store after a Confirmed booking of resource_id: the availability fields of
\* that resource are empty, every other field and row is as before.
StoreClearedOnly(before, after, resource_id) ==
    /\ Len(after) = Len(before)
    /\ \A i \in DOMAIN before :
          IF before[i].id = resource_id
          THEN after[i] = [before[i] EXCEPT !.availability_start = "",
                                            !.availability_end = ""]
          ELSE after[i] = before[i]

C6_SequentialRequestIds ==
    /\ \A i \in DOMAIN requests_csv :
          /\ requests_csv[i].request_id \in Nat \ {0}
          /\ requests_csv[i].request_id =
                IF i = 1 THEN 1
                ELSE MaxOf({requests_csv[j].request_id : j \in 1..(i - 1)}) + 1
    /\ \A i, j \in DOMAIN requests_csv :
          i # j => requests_csv[i].request_id # requests_csv[j].request_id

C6_Witness ==
    /\ Len(requests_csv) >= 2
    /\ LastRow(requests_csv).request_id = Len(requests_csv)

\* C9: no two Confirmed requests of one resource have intersecting closed date
\* ranges.
C9_NoDoubleBooking ==
    \A i, j \in DOMAIN requests_csv :
        (/\ i # j
         /\ requests_csv[i].status = "Confirmed"
         /\ requests_csv[j].status = "Confirmed"
         /\ requests_csv[i].resource_id = requests_csv[j].resource_id)
        => (strptime(requests_csv[i].end_date) < strptime(requests_csv[j].start_date)
            \/ strptime(requests_csv[j].end_date) < strptime(requests_csv[i].start_date))

\* Two Confirmed requests of one resource on different days, and a Waitlist
\* request would have been the outcome of an intersecting range.
C9_Witness ==
    \E i, j \in DOMAIN requests_csv :
        /\ i < j
        /\ requests_csv[i].status = "Confirmed"
        /\ requests_csv[j].status = "Confirmed"
        /\ requests_csv[i].resource_id = requests_csv[j].resource_id
        /\ requests_csv[i].start_date # requests_csv[j].start_date

\* C10 as stated: the counters a Home or Dashboard run displays are the numbers
\* of Confirmed and of Waitlist requests in the ledger.
C10_CountersMatchLedger ==
    (shown.page \in {"Home", "My Dashboard"} /\ shown.kind = "none")
        => /\ shown.stats[1] = count_status(requests_csv, "Confirmed")
           /\ shown.stats[2] = count_status(requests_csv, "Waitlist")

(***************************************************************************)
(* Validation of a submitted request form (specification SpecValidation):  *)
(* one resource has been offered with the form's default dates and is      *)
(* selected; the session goes on viewing pages, selecting the resource and *)
(* submitting the request forms.                                           *)
(***************************************************************************)
InitValidation ==
    /\ resources_csv = to_csv_resources(<<new_resource(<<>>, "Drill", "Shed", today, today)>>)
    /\ requests_csv = <<>>
    /\ session_state = [selected_resource |-> 1, request_active |-> TRUE]
    /\ shown = Display("Home", "none", "", <<0, 0>>)
    /\ avail_call = NoCall
    /\ pc = IdleRace
    /\ df = NoFrames
    /\ form = NoForm
    /\ branch = NoBranch
    /\ search_in = NoSearch
    /\ results = <<>>

NextValidation ==
    \/ ViewHome
    \/ ViewDashboard
    \/ SelectHomeAny
    \/ SelectSmartAny
    \/ SubmitHomeAny
    \/ SubmitSmartAny

SpecValidation == InitValidation /\ [][NextValidation]_vars

\* What C4 says of a submission of (user_name, start_date, end_date).
Rejected(text) ==
    /\ shown'.kind = "error"
    /\ shown'.text = text
    /\ ~avail_call'.called
    /\ UNCHANGED <<requests_csv, resources_csv>>

ValidationOutcome(user_name, start_date, end_date) ==
    IF start_date > end_date THEN Rejected(MSG_RANGE)
    ELSE IF start_date < today \/ end_date < today THEN Rejected(MSG_PAST)
    ELSE IF strip(user_name) = "" THEN Rejected(MSG_NAME)
    ELSE shown'.kind # "error" /\ avail_call'.called

\* C4: a submission with start_date > end_date is rejected with the date-range
\* message; else one with a date before today with the past-date message; else
\* one whose name is blank after trimming with the missing-name message.  A
\* rejected submission changes neither the ledger nor the store and does not
\* reach the availability check.
C4_ValidationOrder ==
    [][\A n \in UserNames, s \in Days, e \in Days :
          (SubmitHome(n, s, e) \/ SubmitSmart(n, s, e)) => ValidationOutcome(n, s, e)]_vars

\* A submission was rejected by each of the three checks while the ledger holds
\* an earlier request: here the name check, reached with valid dates.
C4_Witness ==
    /\ shown.kind = "error"
    /\ shown.text = MSG_NAME
    /\ requests_csv # <<>>
    /\ session_state.request_active

(***************************************************************************)
(* is_resource_available as a function (specification SpecAvailability):   *)
(* the ledger is any sequence of at most MaxRequests requests of two        *)
(* resources, of either status, over any range of days from today on; the  *)
(* function is called once with any resource and any pair of days.         *)
(***************************************************************************)
LedgerResources == {1, 2}

LedgerRows ==
    UNION {{[request_id |-> 0, user_name |-> "amy", resource_id |-> r,
             resource_title |-> "Drill", start_date |-> strftime(s),
             end_date |-> strftime(e), status |-> st] :
               r \in LedgerResources, e \in s..MaxDay, st \in {"Confirmed", "Waitlist"}} :
           s \in today..MaxDay}

Numbered(rows) == [i \in DOMAIN rows |-> [rows[i] EXCEPT !.request_id = i]]

Ledgers == UNION {{Numbered(rows) : rows \in [1..n -> LedgerRows]} : n \in 0..MaxRequests}

InitAvailability ==
    /\ resources_csv = <<>>
    /\ requests_csv \in Ledgers
    /\ session_state = [selected_resource |-> 0, request_active |-> FALSE]
    /\ shown = Display("Home", "none", "", <<0, 0>>)
    /\ avail_call = NoCall
    /\ pc = IdleRace
    /\ df = NoFrames
    /\ form = NoForm
    /\ branch = NoBranch
    /\ search_in = NoSearch
    /\ results = <<>>

\* One call of is_resource_available (lines 61-71) on the loaded ledger.
CheckAvailability(resource_id, start_date, end_date) ==
    /\ ~avail_call.called
    /\ avail_call' = [called |-> TRUE, resource_id |-> resource_id,
                      start_date |-> start_date, end_date |-> end_date,
                      result |-> is_resource_available(resource_id, start_date, end_date,
                                                       read_csv_requests(requests_csv))]
    /\ UNCHANGED <<resources_csv, requests_csv, session_state, shown>>
    /\ UNCHANGED other_vars

NextAvailability ==
    \E r \in LedgerResources, s \in Days, e \in Days : CheckAvailability(r, s, e)

SpecAvailability == InitAvailability /\ [][NextAvailability]_vars

\* A ledger row that decides the call: same resource, status Confirmed, and a
\* closed range [s2, e2] with start <= e2 and end >= s2.
BlockingRow(row, resource_id, start_date, end_date) ==
    /\ row.resource_id = resource_id
    /\ row.status = "Confirmed"
    /\ start_date <= strptime(row.end_date)
    /\ end_date >= strptime(row.start_date)

\* C1: is_resource_available returns false exactly when the ledger holds a
\* Confirmed request of the same resource whose closed range meets the candidate
\* range; Waitlist requests and requests of other resources do not count.
C1_UnavailableIffConfirmedOverlap ==
    avail_call.called
        => (avail_call.result = FALSE
              <=> \E i \in DOMAIN requests_csv :
                     BlockingRow(requests_csv[i], avail_call.resource_id,
                                 avail_call.start_date, avail_call.end_date))

\* The call returned true although a Waitlist request of the same resource and a
\* Confirmed request of another resource meet the candidate range.
C1_Witness ==
    /\ avail_call.called
    /\ avail_call.result = TRUE
    /\ \E i, j \in DOMAIN requests_csv :
          /\ requests_csv[i].resource_id = avail_call.resource_id
          /\ requests_csv[i].status = "Waitlist"
          /\ strptime(requests_csv[i].start_date) <= avail_call.end_date
          /\ strptime(requests_csv[i].end_date) >= avail_call.start_date
          /\ requests_csv[j].resource_id # avail_call.resource_id
          /\ requests_csv[j].status = "Confirmed"
          /\ strptime(requests_csv[j].start_date) <= avail_call.end_date
          /\ strptime(requests_csv[j].end_date) >= avail_call.start_date

(***************************************************************************)
(* Two sessions submitting at once (specification SpecRace).  Each run of  *)
(* the script has its own requests_df / resources_df, loaded at lines      *)
(* 44-45; nothing orders the load, the check and the write of one run      *)
(* against those of another.  One resource has been offered and both       *)
(* sessions have its request form open.                                    *)
(***************************************************************************)
RaceNames == {"amy"}

InitRace ==
    /\ resources_csv = to_csv_resources(<<new_resource(<<>>, "Drill", "Shed", today, today)>>)
    /\ requests_csv = <<>>
    /\ session_state = [selected_resource |-> 1, request_active |-> TRUE]
    /\ shown = Display("Home", "none", "", <<0, 0>>)
    /\ avail_call = NoCall
    /\ pc = IdleRace
    /\ df = NoFrames
    /\ form = NoForm
    /\ branch = NoBranch
    /\ search_in = NoSearch
    /\ results = <<>>

race_unchanged == <<session_state, shown, avail_call, search_in, results>>

\* Lines 44-45 of a run started by a form submission.
LoadData(p, user_name, start_date, end_date) ==
    /\ pc[p] = "idle"
    /\ df' = [df EXCEPT ![p] = [requests |-> read_csv_requests(requests_csv),
                                resources |-> read_csv_resources(resources_csv)]]
    /\ form' = [form EXCEPT ![p] = [user_name |-> user_name, start_date |-> start_date,
                                    end_date |-> end_date]]
    /\ pc' = [pc EXCEPT ![p] = "loaded"]
    /\ UNCHANGED <<resources_csv, requests_csv, branch>>
    /\ UNCHANGED race_unchanged

\* Mutant of the ledger handed to is_resource_available: re-read from the file.
checked_ledger_reloaded(p) == read_csv_requests(requests_csv)

\* Line 171: the ledger handed to is_resource_available is the run's requests_df.
checked_ledger(p) == df[p].requests

\* Lines 166-171 and 175: validation and the availability check pick the branch.
SubmitCheck(p) ==
    LET b == submit_branch(form[p].user_name, session_state.selected_resource,
                           form[p].start_date, form[p].end_date, checked_ledger(p))
    IN  /\ pc[p] = "loaded"
        /\ branch' = [branch EXCEPT ![p] = b.status]
        /\ pc' = [pc EXCEPT ![p] = IF b.status = "none" THEN "done" ELSE "decided"]
        /\ UNCHANGED <<resources_csv, requests_csv, df, form>>
        /\ UNCHANGED race_unchanged

\* Lines 172 / 176: add_request (76-94) appends to the run's frame and writes it out.
AddRequest(p) ==
    LET resource_id == session_state.selected_resource
        ledger == add_request_ledger(df[p].requests, form[p].user_name, resource_id,
                                     resource_title_of(df[p].resources, resource_id),
                                     form[p].start_date, form[p].end_date, branch[p])
    IN  /\ pc[p] = "decided"
        /\ requests_csv' = to_csv_requests(ledger)
        /\ resources_csv' = add_request_store(resources_csv, df[p].resources,
                                              resource_id, branch[p])
        /\ df' = [df EXCEPT ![p].requests = ledger,
                            ![p].resources = IF branch[p] = "Confirmed"
                                             THEN clear_availability(@, resource_id)
                                             ELSE @]
        /\ pc' = [pc EXCEPT ![p] = "done"]
        /\ UNCHANGED <<form, branch>>
        /\ UNCHANGED race_unchanged

LoadDataAny ==
    \E p \in Sessions, n \in RaceNames, s \in Days, e \in Days : LoadData(p, n, s, e)

SubmitCheckAny == \E p \in Sessions : SubmitCheck(p)

AddRequestAny == \E p \in Sessions : AddRequest(p)

NextRace ==
    \/ LoadDataAny
    \/ SubmitCheckAny
    \/ AddRequestAny

SpecRace == InitRace /\ [][NextRace]_vars

\* The ledger a session loaded at the start of its run.
LoadedLedger(p) ==
    IF pc[p] = "done" /\ branch[p] # "none"
    THEN SubSeq(df[p].requests, 1, Len(df[p].requests) - 1)
    ELSE df[p].requests

FormValid(p) ==
    /\ form[p].start_date <= form[p].end_date
    /\ form[p].start_date >= today
    /\ form[p].end_date >= today
    /\ strip(form[p].user_name) # ""

FormRow(p) ==
    [resource_id |-> session_state.selected_resource,
     start_date |-> strftime(form[p].start_date), end_date |-> strftime(form[p].end_date)]

\* C5: the branch a session takes is decided by the ledger its run loaded, not by
\* the ledger on file when it checks or writes: a valid submission is Confirmed
\* exactly when the loaded ledger holds no intersecting Confirmed request, so two
\* sessions that loaded before either wrote are both Confirmed.
C5_BranchDecidedOnLoadedLedger ==
    \A p \in Sessions :
        pc[p] \in {"decided", "done"}
            => branch[p] = IF ~FormValid(p) THEN "none"
                           ELSE IF OverlapsConfirmed(LoadedLedger(p), FormRow(p))
                                THEN "Waitlist"
                                ELSE "Confirmed"

\* Both sessions finished on the Confirmed branch with intersecting ranges of the
\* same resource, each having loaded the ledger before the other wrote.
C5_Witness ==
    /\ \A p \in Sessions : pc[p] = "done" /\ branch[p] = "Confirmed"
    /\ \A p \in Sessions : LoadedLedger(p) = <<>>
    /\ form[1].start_date <= form[2].end_date
    /\ form[1].end_date >= form[2].start_date

(***************************************************************************)
(* Smart Search (specification SpecSearch).  The embedding model and the   *)
(* nearest-neighbour index are collaborators: a query is given by the L2   *)
(* distance of every indexed row to it.  index.search answers with the     *)
(* rows in ascending distance, by 0-based position, and fills an answer    *)
(* longer than the index with position -1 and a filler distance, which is  *)
(* negative or beyond every real distance.  Scores are kept in halves:     *)
(* score_halves(d) is twice max(1 - d/2, 0).                               *)
(***************************************************************************)
DefaultK == 5

HugeDist == MaxDist + 1

FillerDistances == {-1, HugeDist}

MSG_NO_MATCH == "No matching resources found."
MSG_TOP == "Top Results"

\* The store after n offers with the form's default dates.
RECURSIVE OfferedStore(_)
OfferedStore(n) ==
    IF n = 0 THEN <<>>
    ELSE LET store == OfferedStore(n - 1)
         IN  Append(store, new_resource(store, "Drill", "Shed", today, today))

\* index.search(q_vec, count), line 190: (distance, position) pairs, nearest first.
RECURSIVE nearest_first(_, _)
nearest_first(dist, left) ==
    IF left = {} THEN <<>>
    ELSE LET i == CHOOSE i \in left :
                    \A j \in left : dist[i] < dist[j] \/ (dist[i] = dist[j] /\ i <= j)
         IN  <<[dist |-> dist[i], idx |-> i - 1]>> \o nearest_first(dist, left \ {i})

index_search(query, count) ==
    LET found == nearest_first(query.dist, 1..query.n)
    IN  [i \in 1..count |->
            IF i <= Len(found) THEN found[i] ELSE [dist |-> query.pad, idx |-> -1]]

\* resources_df.iloc[idx], line 195: a negative position counts from the end.
iloc(resources_df, idx) ==
    IF idx >= 0 THEN resources_df[idx + 1] ELSE resources_df[Len(resources_df) + 1 + idx]

\* Line 196, in halves.
score_halves(dist) == IF 2 - dist > 0 THEN 2 - dist ELSE 0

\* Lines 195-197: the row with its score column.
scored_row(row, score) ==
    [f \in DOMAIN row \cup {"score"} |-> IF f = "score" THEN score ELSE row[f]]

\* Lines 193-199, from the i-th pair on.
RECURSIVE search_loop(_, _, _, _, _)
search_loop(resources_df, hits, i, k, results_list) ==
    IF i > Len(hits) THEN results_list
    ELSE LET kept == IF hits[i].dist >= 0
                     THEN Append(results_list,
                                 scored_row(iloc(resources_df, hits[i].idx),
                                            score_halves(hits[i].dist)))
                     ELSE results_list
         IN  IF Len(kept) >= k THEN kept
             ELSE search_loop(resources_df, hits, i + 1, k, kept)

\* Mutant of line 198: the loop leaves one row late.
search_one_late(resources_df, query, k) ==
    search_loop(resources_df, index_search(query, k * 2), 1, k + 1, <<>>)

\* search(query, k), lines 188-200.
search(resources_df, query, k) ==
    search_loop(resources_df, index_search(query, k * 2), 1, k, <<>>)

InitSearch ==
    /\ \E n \in 1..MaxIndexed :
          /\ resources_csv = to_csv_resources(OfferedStore(n))
          /\ \E d \in [1..n -> 0..MaxDist], f \in FillerDistances :
                search_in = [n |-> n, dist |-> d, pad |-> f]
    /\ requests_csv = <<>>
    /\ session_state = [selected_resource |-> 0, request_active |-> FALSE]
    /\ shown = Display("Home", "none", "", <<0, 0>>)
    /\ avail_call = NoCall
    /\ pc = IdleRace
    /\ df = NoFrames
    /\ form = NoForm
    /\ branch = NoBranch
    /\ results = <<>>

\* Smart Search page with a query entered: lines 202-215.
SmartSearch ==
    LET found == search(read_csv_resources(resources_csv), search_in, DefaultK)
    IN  /\ shown.page # "Smart Search"
        /\ results' = found
        /\ shown' = IF found = <<>>
                    THEN Display("Smart Search", "warning", MSG_NO_MATCH, NoStats)
                    ELSE Display("Smart Search", "none", MSG_TOP, NoStats)
        /\ UNCHANGED <<resources_csv, requests_csv, session_state, avail_call,
                       pc, df, form, branch, search_in>>

NextSearch == SmartSearch

SpecSearch == InitSearch /\ [][NextSearch]_vars

Searched == shown.page = "Smart Search"

\* The candidates search walks: the 2k pairs index.search reports.
Candidates == index_search(search_in, DefaultK * 2)

KeptCandidates ==
    LET nonnegative(h) == h.dist >= 0
    IN  SelectSeq(Candidates, nonnegative)

\* C7: the result is the first k of the candidates with a non-negative reported
\* distance, in the order index.search reported them (nearest first), each with
\* the row at its position and the score max(1 - d/2, 0); it has at most k rows.
C7_FirstKNonNegativeNearestFirst ==
    Searched =>
        LET kept == KeptCandidates
            m == IF Len(kept) < DefaultK THEN Len(kept) ELSE DefaultK
            resources_df == read_csv_resources(resources_csv)
        IN  /\ Len(results) = m
            /\ Len(results) <= DefaultK
            /\ \A i \in 1..m :
                  /\ results[i].score = score_halves(kept[i].dist)
                  /\ results[i].id = iloc(resources_df, kept[i].idx).id
            /\ \A i, j \in 1..m : i < j => results[i].score >= results[j].score

\* More rows than k are indexed: the k nearest are returned, nearest first.
C7_Witness ==
    /\ Searched
    /\ search_in.n > DefaultK
    /\ Len(results) = DefaultK
    /\ results[1].score > results[DefaultK].score

\* A search over fewer rows than k whose negative filler candidates were dropped.
C7_WitnessDiscard ==
    /\ Searched
    /\ search_in.pad < 0
    /\ Len(results) = search_in.n
    /\ Len(results) < DefaultK

\* C8 as stated: when no indexed resource scores positively for the query, the
\* result of search is empty.
C8_EmptyWhenNoPositiveScore ==
    (Searched /\ \A i \in 1..search_in.n : score_halves(search_in.dist[i]) = 0)
        => results = <<>>

====
